---- MODULE Spec2Model ----
(***************************************************************************)
(* Model of the OptiSharp Python benchmark tooling:                        *)
(*   optuna_matrix.py   run_benchmark, the trial loop of one configuration *)
(*   objectives.py      get_objective / get_range                          *)
(*   generate_report.py generate_report and the sections it renders,       *)
(*                      format_value                                       *)
(*   optuna_matrix.py   the objective closure of one trial, step by step,  *)
(*   objectives.py      with get_intermediate_value                        *)
(*   unified_benchmark.py, load_tests_comprehensive.py,                    *)
(*   benchmarks_optuna.py   the main loops over the benchmark matrix       *)
(*   optuna_matrix.py   BenchmarkResult.save followed by load_results,    *)
(*                      and main around run_benchmark                      *)
(*   objectives.py      the generator seed of get_intermediate_value       *)
(*                                                                         *)
(* Real objective values are abstracted to the integers 0..MaxVal; only    *)
(* their order matters to the driver.  The Optuna study is modelled by     *)
(* what run_benchmark reads of it: the number of trials it has run and     *)
(* the values of its COMPLETE trials (best_value is their minimum and      *)
(* raises ValueError when there is none).                                  *)
(***************************************************************************)
EXTENDS Integers, Sequences, FiniteSets, TLC

\* ------------------------------------------------------------------ bounds
\* Largest n_trials a configuration asks for.
MaxTrials == 11
\* Largest abstract objective value.
MaxVal == 2
\* Largest n_params a configuration asks for.
MaxParams == 1
\* Number of values the noise of get_intermediate_value is drawn from.
NoiseLevels == 2

VARIABLES
    \* --- optuna_matrix.run_benchmark
    cfg,             \* the arguments of run_benchmark
    pc,              \* where run_benchmark is
    study_created,   \* optuna.create_study has been called
    trial_number,    \* trials the study has started (the next trial.number)
    complete_values, \* values of the study's COMPLETE trials
    convergence,     \* the convergence list
    checkpoint_idx,  \* nonlocal checkpoint_idx
    pruned_count,    \* nonlocal pruned_count
    suggested,       \* calls of trial.suggest_float so far
    evaluated,       \* calls of objective_fn so far
    finalized,       \* trials whose objective returned its true value to the study
    returned_values, \* the true values the objective has returned so far
    error,           \* the exception that left run_benchmark ("" when none)
    swallowed,       \* the exception caught by `except Exception: pass` ("" when none)
    result,          \* <<>> or <<the BenchmarkResult returned>>
    \* --- the main() of unified_benchmark.py, load_tests_comprehensive.py and
    \*     benchmarks_optuna.py
    m_prog,          \* which program runs (and, for load_tests, its argv mode)
    m_pc,            \* "idle", "running", "saved" or "aborted"
    m_log,           \* the cells attempted so far, each with its outcome
    m_results,       \* the results list of the program
    m_file,          \* <<>> or <<the results written to the results file>>
    \* --- generate_report.py
    r_exists,        \* the input directory exists
    r_dir,           \* the *.json files of the input directory: name -> content
    r_pc,            \* "idle", "start", "loaded", "grouped", "returned" or "raised"
    r_results,       \* the list load_results returned
    r_files,         \* the file each element of r_results was loaded from
    r_grouped,       \* the mapping group_by_config returned: key -> framework ->
                     \* position in r_results of the BenchmarkResult object
    r_doc,           \* <<>> or <<the document generate_report returned>>
    \* --- generate_report.format_value
    f_value,         \* the argument value
    f_is_time,       \* the argument is_time
    f_pc,            \* "idle", "call", "returned" or "raised"
    f_out,           \* <<>> or <<the text format_value returned>>
    \* --- run_benchmark.objective, the closure study.optimize calls for a trial
    o_pruner,        \* pruner_name of the run
    o_trial_number,  \* trial.number
    o_due,           \* the checkpoint test of line 163 is true for this trial
    o_no_complete,   \* the study has no COMPLETE trial yet
    o_pc,            \* "idle", "enter", "report", "query", "checkpoint",
                     \* "returned", "pruned" or "raised"
    o_true_value,    \* <<>> or <<true_value>>
    o_step,          \* the loop variable step
    o_last,          \* <<>> or <<the last (step, value) handed to trial.report>>
    o_reports,       \* calls of trial.report so far
    o_queries,       \* calls of trial.should_prune so far
    o_returned,      \* <<>> or <<the value the closure returned>>
    \* --- objectives.get_intermediate_value: the generator seeds of two calls
    n_a,             \* the arguments (seed, trial_number, step) of the first call
    n_b,             \* the arguments of the second call
    n_pc,            \* "idle", "call" or "seeded"
    n_rng,           \* <<>> or <<seed of the first generator, seed of the second>>
    \* --- optuna_matrix.BenchmarkResult.save
    s_saved,         \* path -> number of save calls on it and the last result saved
    \* --- optuna_matrix.main
    x_pc,            \* "idle", "run" (inside run_benchmark) or "exited"
    x_file,          \* <<>> or <<what the file at args.output holds>>
    x_exit           \* the exit code main returned (-1 while it runs)

driver_vars == <<cfg, pc, study_created, trial_number, complete_values, convergence,
                 checkpoint_idx, pruned_count, suggested, evaluated, finalized,
                 returned_values, error, swallowed, result>>

main_vars == <<m_prog, m_pc, m_log, m_results, m_file>>

report_vars == <<r_exists, r_dir, r_pc, r_results, r_files, r_grouped, r_doc>>

format_vars == <<f_value, f_is_time, f_pc, f_out>>

objective_vars == <<o_pruner, o_trial_number, o_due, o_no_complete, o_pc, o_true_value,
                    o_step, o_last, o_reports, o_queries, o_returned>>

noise_vars == <<n_a, n_b, n_pc, n_rng>>

store_vars == <<s_saved>>

cli_vars == <<x_pc, x_file, x_exit>>

vars == <<driver_vars, main_vars, report_vars, format_vars, objective_vars, noise_vars,
          store_vars, cli_vars>>

not_driver_vars == <<main_vars, report_vars, format_vars,
                     objective_vars, noise_vars, store_vars, cli_vars>>
not_main_vars == <<driver_vars, report_vars, format_vars,
                   objective_vars, noise_vars, store_vars, cli_vars>>
not_report_vars == <<driver_vars, main_vars, format_vars,
                     objective_vars, noise_vars, store_vars, cli_vars>>
not_format_vars == <<driver_vars, main_vars, report_vars,
                     objective_vars, noise_vars, store_vars, cli_vars>>
not_objective_vars == <<driver_vars, main_vars, report_vars,
                        format_vars, noise_vars, store_vars, cli_vars>>
not_noise_vars == <<driver_vars, main_vars, report_vars,
                    format_vars, objective_vars, store_vars, cli_vars>>
not_store_vars == <<driver_vars, main_vars, report_vars,
                    format_vars, objective_vars, noise_vars, cli_vars>>
not_cli_vars == <<driver_vars, main_vars, report_vars,
                  format_vars, objective_vars, noise_vars, store_vars>>


\* ------------------------------------------------------------ objectives.py
\* str.lower on the names the model passes in.
lower(name) ==
    CASE name = "Sphere" -> "sphere"
      [] name = "ACKLEY" -> "ackley"
      [] OTHER -> name

\* get_objective: the function chosen, or "ValueError".
get_objective(name) ==
    LET name_lower == lower(name) IN
    IF name_lower = "sphere" THEN "sphere"
    ELSE IF name_lower = "rosenbrock" THEN "rosenbrock"
    ELSE IF name_lower = "rastrigin" THEN "rastrigin"
    ELSE IF name_lower = "ackley" THEN "ackley"
    ELSE "ValueError"

\* get_range: the range chosen (named by its objective), or "ValueError".
get_range(objective_name) ==
    LET name_lower == lower(objective_name) IN
    IF name_lower \in {"sphere", "rosenbrock", "rastrigin", "ackley"}
    THEN name_lower ELSE "ValueError"

\* The values objective_fn(params) can take for a vector of n_params
\* coordinates; NaN is TRUE for ackley of the empty vector (0/0).
Vals == 0..MaxVal

TrueValues(fn, n_params) ==
    IF n_params <= 0
    THEN (IF fn = "ackley" THEN {[nan |-> TRUE, v |-> 0]} ELSE {[nan |-> FALSE, v |-> 0]})
    ELSE IF fn = "rosenbrock" /\ n_params = 1
    THEN {[nan |-> FALSE, v |-> 0]}
    ELSE {[nan |-> FALSE, v |-> x] : x \in Vals}

\* --------------------------------------------------------- optuna_matrix.py
\* Mutant of SamplerKnown: the final else branch is missing, so an unknown name
\* leaves sampler_obj = None and create_study takes its default sampler.
SamplerKnownNoElse(sampler_name) == TRUE

\* The sampler branch of run_benchmark: TRUE when a sampler object is built.
SamplerKnown(sampler_name) == sampler_name \in {"tpe", "random", "cmaes"}

\* The pruner branch of run_benchmark: TRUE when a pruner object is built.
PrunerKnown(pruner_name) == pruner_name \in {"none", "median", "sha"}

\* checkpoints = [0.2, 0.4, 0.6, 0.8, 1.0], as fifths.
checkpoints == <<1, 2, 3, 4, 5>>

\* int(n_trials * checkpoints[checkpoint_idx]); idx is 0-based as in the code.
checkpoint_trial(n_trials, idx) == (n_trials * checkpoints[idx + 1]) \div 5

Min(S) == CHOOSE x \in S : \A y \in S : x <= y

Max(S) == CHOOSE x \in S : \A y \in S : x >= y

\* study.best_value raises ValueError unless a trial is COMPLETE.
BestValueRaises(cv) == cv = {}

\* Mutant of best_value: the study was created with direction="maximize".
best_value_maximize(cv) == Max(cv)

\* study.best_value with direction="minimize": the least COMPLETE value.
best_value(cv) == Min(cv)

RECURSIVE Pad(_, _)
\* while len(convergence) < 5: convergence.append(study.best_value)
Pad(conv, b) == IF Len(conv) < 5 THEN Pad(Append(conv, b), b) ELSE conv

\* convergence[:5]
Take5(conv) == SubSeq(conv, 1, IF Len(conv) < 5 THEN Len(conv) ELSE 5)

SamplerNames == {"tpe", "cmaes", "TPE"}
ObjectiveNames == {"sphere", "rosenbrock", "ackley", "Sphere", "booth"}
PrunerNames == {"none", "median", "Median"}
TierNames == {"fast"}

Configs ==
    [sampler : SamplerNames, objective : ObjectiveNames, n_params : -1..MaxParams,
     n_trials : -1..MaxTrials, pruner : PrunerNames, tier : TierNames]

DriverInit ==
    /\ cfg \in Configs
    /\ pc = "call"
    /\ study_created = FALSE
    /\ trial_number = 0
    /\ complete_values = {}
    /\ convergence = <<>>
    /\ checkpoint_idx = 0
    /\ pruned_count = 0
    /\ suggested = 0
    /\ evaluated = 0
    /\ finalized = 0
    /\ returned_values = {}
    /\ error = ""
    /\ swallowed = ""
    /\ result = <<>>

\* run_benchmark up to the call of study.optimize.
Call ==
    /\ pc = "call"
    /\ IF get_objective(cfg.objective) = "ValueError"
          \/ get_range(cfg.objective) = "ValueError"
          \/ ~SamplerKnown(cfg.sampler)
          \/ ~PrunerKnown(cfg.pruner)
       THEN /\ pc' = "raised"
            /\ error' = "ValueError"
            /\ UNCHANGED study_created
       ELSE /\ pc' = "optimize"
            /\ study_created' = TRUE
            /\ UNCHANGED error
    /\ UNCHANGED <<cfg, trial_number, complete_values, convergence, checkpoint_idx,
                   pruned_count, suggested, evaluated, finalized, returned_values,
                   swallowed, result>>
    /\ UNCHANGED not_driver_vars

\* range(10): the steps of the intermediate-value loop; a trial's prune input is
\* the step at which should_prune first answers yes, or Steps when it never does.
Steps == 10

\* The answers trial.should_prune() can give in one trial.
PruneChoices(pruner_name) == IF pruner_name /= "none" THEN 0..Steps ELSE {Steps}

\* Mutant of PrunedIncrement: the counter is bumped at every report of the
\* trial instead of once when it is pruned.
PrunedIncrementPerStep(prune) == IF prune < Steps THEN prune + 1 ELSE Steps

\* pruned_count += 1 just before raise optuna.TrialPruned().
PrunedIncrement(prune) == IF prune < Steps THEN 1 ELSE 0

\* if checkpoint_idx < len(checkpoints) and trial.number >= checkpoint_trial - 1
SnapshotDue(n_trials, idx, number) ==
    /\ idx < Len(checkpoints)
    /\ number >= checkpoint_trial(n_trials, idx) - 1

\* Mutant of tell: the value of a trial enters the values best_value ranges
\* over whatever the state of the trial.
tell_any_state(cv, state, value) == cv \cup {value}

\* The study's bookkeeping when a trial ends: its value counts for best_value
\* only if the trial is COMPLETE; the value a PRUNED or FAIL trial leaves in
\* the study does not.
tell(cv, state, value) == IF state = "COMPLETE" THEN cv \cup {value} ELSE cv

\* params = {...}: one trial.suggest_float per i in range(n_params).
SuggestCalls(n_params) == IF n_params > 0 THEN n_params ELSE 0

\* One trial of study.optimize: the objective closure, then Optuna's bookkeeping
\* of its outcome (PRUNED on TrialPruned, FAIL on a NaN value or an exception,
\* COMPLETE otherwise).
Trial ==
    /\ pc = "optimize"
    /\ trial_number < cfg.n_trials
    /\ \E tv \in TrueValues(get_objective(cfg.objective), cfg.n_params),
          prune \in PruneChoices(cfg.pruner) :
        /\ suggested' = suggested + SuggestCalls(cfg.n_params)
        /\ evaluated' = evaluated + 1
        /\ trial_number' = trial_number + 1
        /\ pruned_count' = pruned_count + PrunedIncrement(prune)
        /\ IF prune < Steps
           THEN \* raise optuna.TrialPruned(): the trial is PRUNED, the loop goes on
                /\ complete_values' = tell(complete_values, "PRUNED", tv.v)
                /\ UNCHANGED <<pc, convergence, checkpoint_idx, finalized,
                               returned_values, swallowed>>
           ELSE IF SnapshotDue(cfg.n_trials, checkpoint_idx, trial_number)
                   /\ BestValueRaises(complete_values)
           THEN \* study.best_value raises ValueError inside the objective: the
                \* trial is FAIL and, optimize being called without catch=, the
                \* exception leaves study.optimize and reaches `except Exception`
                /\ swallowed' = "ValueError"
                /\ pc' = "finish"
                /\ complete_values' = tell(complete_values, "FAIL", tv.v)
                /\ UNCHANGED <<convergence, checkpoint_idx, finalized, returned_values>>
           ELSE /\ IF SnapshotDue(cfg.n_trials, checkpoint_idx, trial_number)
                   THEN /\ convergence' = Append(convergence, best_value(complete_values))
                        /\ checkpoint_idx' = checkpoint_idx + 1
                   ELSE UNCHANGED <<convergence, checkpoint_idx>>
                \* return true_value: a NaN value makes the trial FAIL, silently
                /\ complete_values' = tell(complete_values,
                                           IF tv.nan THEN "FAIL" ELSE "COMPLETE", tv.v)
                /\ finalized' = finalized + 1
                /\ returned_values' = returned_values \cup {tv}
                /\ UNCHANGED <<pc, swallowed>>
    /\ UNCHANGED <<cfg, study_created, error, result>>
    /\ UNCHANGED not_driver_vars

\* study.optimize returns after n_trials trials (at once when n_trials <= 0).
OptimizeReturns ==
    /\ pc = "optimize"
    /\ trial_number >= cfg.n_trials
    /\ pc' = "finish"
    /\ UNCHANGED <<cfg, study_created, trial_number, complete_values, convergence,
                   checkpoint_idx, pruned_count, suggested, evaluated, finalized,
                   returned_values, error, swallowed, result>>
    /\ UNCHANGED not_driver_vars

\* pruned_count / n_trials if n_trials > 0 else 0, as a fraction.
PruningRate(pruned, n_trials) ==
    IF n_trials > 0 THEN [num |-> pruned, den |-> n_trials] ELSE [num |-> 0, den |-> 1]

\* The BenchmarkResult built at the end of run_benchmark.
MakeResult(c, best, pruned, conv) ==
    [framework |-> "optuna", sampler |-> c.sampler, objective |-> c.objective,
     n_params |-> c.n_params, n_trials |-> c.n_trials, pruner |-> c.pruner,
     tier |-> c.tier, best_value |-> best, pruned_trials |-> pruned,
     pruning_rate |-> PruningRate(pruned, c.n_trials), convergence |-> conv]

\* run_benchmark after study.optimize: the padding loop, the truncation and the
\* construction of the result; study.best_value raises when no trial is COMPLETE.
Finish ==
    /\ pc = "finish"
    /\ IF BestValueRaises(complete_values)
       THEN /\ pc' = "raised"
            /\ error' = "ValueError"
            /\ UNCHANGED <<convergence, result>>
       ELSE /\ convergence' = Take5(Pad(convergence, best_value(complete_values)))
            /\ result' = <<MakeResult(cfg, best_value(complete_values), pruned_count,
                                      convergence')>>
            /\ pc' = "returned"
            /\ UNCHANGED error
    /\ UNCHANGED <<cfg, study_created, trial_number, complete_values, checkpoint_idx,
                   pruned_count, suggested, evaluated, finalized, returned_values,
                   swallowed>>
    /\ UNCHANGED not_driver_vars

\* run_benchmark has not been called.
DriverIdle ==
    /\ cfg = [sampler |-> "tpe", objective |-> "sphere", n_params |-> 1,
              n_trials |-> 1, pruner |-> "none", tier |-> "fast"]
    /\ pc = "idle"
    /\ study_created = FALSE
    /\ trial_number = 0
    /\ complete_values = {}
    /\ convergence = <<>>
    /\ checkpoint_idx = 0
    /\ pruned_count = 0
    /\ suggested = 0
    /\ evaluated = 0
    /\ finalized = 0
    /\ returned_values = {}
    /\ error = ""
    /\ swallowed = ""
    /\ result = <<>>

\* ------------------------------- run_benchmark.objective, step by step
\* The float values of one trial are fixed-point numbers: ValueUnit units make
\* 1.0, so that 0.5 * noise is a whole number of units.
ValueUnit == 2 * NoiseLevels

\* rng.uniform(0, 1): the draw is n / NoiseLevels for some n of Noises.
Noises == 0..(NoiseLevels - 1)

\* Mutant of get_intermediate_value: the steps are counted from 1, the exact
\* step being Steps.
get_intermediate_value_from_1(true_value, step, trial_num, seed) ==
    IF step = Steps THEN {true_value}
    ELSE {(true_value * (ValueUnit + (Steps - step) * n)) \div ValueUnit : n \in Noises}

\* get_intermediate_value(true_value, step, trial_num, seed): the values it
\* can return, one for each draw of the generator seeded with
\* seed ^ trial_num ^ step.  factor = 1 + (9 - step) * 0.5 * noise.
get_intermediate_value(true_value, step, trial_num, seed) ==
    IF step = 9 THEN {true_value}
    ELSE {(true_value * (ValueUnit + (9 - step) * n)) \div ValueUnit : n \in Noises}

\* The trial.number of the first and of the last trial of a run.
TrialNumbers == {0, MaxTrials - 1}

\* study.optimize is about to call objective(trial).
ObjectiveInit ==
    /\ o_pruner \in {"none", "median"}
    /\ o_trial_number \in TrialNumbers
    /\ o_due \in BOOLEAN
    /\ o_no_complete \in BOOLEAN
    /\ o_trial_number = 0 => o_no_complete
    /\ o_pc = "enter"
    /\ o_true_value = <<>>
    /\ o_step = 0
    /\ o_last = <<>>
    /\ o_reports = 0
    /\ o_queries = 0
    /\ o_returned = <<>>

\* The objective closure is not running.
ObjectiveIdle ==
    /\ o_pruner = "none"
    /\ o_trial_number = 0
    /\ o_due = FALSE
    /\ o_no_complete = TRUE
    /\ o_pc = "idle"
    /\ o_true_value = <<>>
    /\ o_step = 0
    /\ o_last = <<>>
    /\ o_reports = 0
    /\ o_queries = 0
    /\ o_returned = <<>>

\* params = {...}; true_value = objective_fn(params); if pruner_name != "none"
ObjectiveEvaluate ==
    /\ o_pc = "enter"
    /\ \E v \in Vals : o_true_value' = <<v * ValueUnit>>
    /\ o_pc' = IF o_pruner /= "none" THEN "report" ELSE "checkpoint"
    /\ UNCHANGED <<o_pruner, o_trial_number, o_due, o_no_complete, o_step, o_last,
                   o_reports, o_queries, o_returned>>
    /\ UNCHANGED not_objective_vars

\* Mutant of ObjectiveReport: the step ends with the report, should_prune is
\* not asked.
ObjectiveReportUnqueried ==
    /\ o_pc = "report"
    /\ \E iv \in get_intermediate_value(o_true_value[1], o_step, o_trial_number, 42) :
          o_last' = <<[step |-> o_step, value |-> iv]>>
    /\ o_reports' = o_reports + 1
    /\ o_step' = o_step + 1
    /\ o_pc' = IF o_step + 1 < Steps THEN "report" ELSE "checkpoint"
    /\ UNCHANGED <<o_pruner, o_trial_number, o_due, o_no_complete, o_true_value,
                   o_queries, o_returned>>
    /\ UNCHANGED not_objective_vars

\* intermediate_value = get_intermediate_value(true_value, step, trial.number,
\* seed=42); trial.report(intermediate_value, step)
ObjectiveReport ==
    /\ o_pc = "report"
    /\ \E iv \in get_intermediate_value(o_true_value[1], o_step, o_trial_number, 42) :
          o_last' = <<[step |-> o_step, value |-> iv]>>
    /\ o_reports' = o_reports + 1
    /\ o_pc' = "query"
    /\ UNCHANGED <<o_pruner, o_trial_number, o_due, o_no_complete, o_true_value, o_step,
                   o_queries, o_returned>>
    /\ UNCHANGED not_objective_vars

\* if trial.should_prune(): pruned_count += 1; raise optuna.TrialPruned();
\* otherwise the next step of range(10), or the end of the loop.
ObjectiveShouldPrune ==
    /\ o_pc = "query"
    /\ o_queries' = o_queries + 1
    /\ \E should_prune \in BOOLEAN :
          IF should_prune
          THEN /\ o_pc' = "pruned"
               /\ UNCHANGED o_step
          ELSE /\ o_step' = o_step + 1
               /\ o_pc' = IF o_step + 1 < Steps THEN "report" ELSE "checkpoint"
    /\ UNCHANGED <<o_pruner, o_trial_number, o_due, o_no_complete, o_true_value, o_last,
                   o_reports, o_returned>>
    /\ UNCHANGED not_objective_vars

\* The checkpoint block and `return true_value`: study.best_value raises
\* ValueError when the snapshot is due and no trial is COMPLETE.
ObjectiveReturn ==
    /\ o_pc = "checkpoint"
    /\ IF o_due /\ o_no_complete
       THEN /\ o_pc' = "raised"
            /\ UNCHANGED o_returned
       ELSE /\ o_pc' = "returned"
            /\ o_returned' = o_true_value
    /\ UNCHANGED <<o_pruner, o_trial_number, o_due, o_no_complete, o_true_value, o_step,
                   o_last, o_reports, o_queries>>
    /\ UNCHANGED not_objective_vars

\* ------------------- get_intermediate_value: the seed of the noise generator
RECURSIVE xor(_, _)
\* a ^ b on non-negative integers, bit by bit.
xor(a, b) ==
    IF a = 0 THEN b
    ELSE IF b = 0 THEN a
    ELSE (((a % 2) + (b % 2)) % 2) + 2 * xor(a \div 2, b \div 2)

\* np.random.RandomState(seed ^ trial_number ^ step): the seed of the generator.
rng_seed(seed, trial_num, step) == xor(xor(seed, trial_num), step)

\* The arguments of a call that builds a generator: the seed 42 the closure
\* passes or another one, a trial.number of the run, a step before the last.
NoiseSeeds == {42, 43}
NoiseArgs == [seed : NoiseSeeds, trial : 0..(MaxTrials - 1), step : 0..(Steps - 2)]

\* Two calls of get_intermediate_value are about to build their generators.
NoiseInit ==
    /\ n_a \in NoiseArgs
    /\ n_b \in NoiseArgs
    /\ n_pc = "call"
    /\ n_rng = <<>>

\* get_intermediate_value is not called.
NoiseIdle ==
    /\ n_a = [seed |-> 42, trial |-> 0, step |-> 0]
    /\ n_b = [seed |-> 42, trial |-> 0, step |-> 0]
    /\ n_pc = "idle"
    /\ n_rng = <<>>

\* rng = np.random.RandomState(seed ^ trial_number ^ step), in both calls.
SeedGenerators ==
    /\ n_pc = "call"
    /\ n_rng' = <<rng_seed(n_a.seed, n_a.trial, n_a.step),
                  rng_seed(n_b.seed, n_b.trial, n_b.step)>>
    /\ n_pc' = "seeded"
    /\ UNCHANGED <<n_a, n_b>>
    /\ UNCHANGED not_noise_vars

\* ------------------------------------------------- the matrix main programs
\* Cells of the matrix that may raise in one run of a main program.
MaxFailures == 3

\* unified_benchmark.FEATURES
FEATURES == <<"SingleObjective", "MultiObjective", "Constraints", "Pruning">>

\* for scale_name in ["Small", "Medium", "Large"]
UnifiedScales == <<"Small", "Medium", "Large">>

\* load_tests_comprehensive.main: scales and features by sys.argv
LoadTestsScales(prog) == IF prog = "load_tests_all" THEN <<1, 2, 3, 4, 5>> ELSE <<1, 2, 3>>
LoadTestsFeatures == <<"single", "multi", "constraints", "pruning">>

\* The cells of a nested loop `for scale in scales: for feature in features`, in
\* the order the loop visits them.
Cells(scales, features) ==
    [k \in 1..(Len(scales) * Len(features)) |->
        [scale |-> scales[((k - 1) \div Len(features)) + 1],
         feature |-> features[((k - 1) % Len(features)) + 1]]]

UnifiedCells == Cells(UnifiedScales, FEATURES)
LoadTestsCells(prog) == Cells(LoadTestsScales(prog), LoadTestsFeatures)

\* benchmarks_optuna.main: the runs inside its try block, in order.
SuiteRuns ==
    <<[scale |-> 1, feature |-> "CASH"], [scale |-> 2, feature |-> "CASH"],
      [scale |-> 3, feature |-> "CASH"], [scale |-> 1, feature |-> "NN"],
      [scale |-> 2, feature |-> "NN"], [scale |-> 3, feature |-> "NN"],
      [scale |-> 1, feature |-> "MultiObjective"],
      [scale |-> 2, feature |-> "MultiObjective"],
      [scale |-> 1, feature |-> "Pruning"]>>

\* What one run of benchmarks_optuna.main appends to all_results['benchmarks']:
\* its result, or one entry per pruner type for the pruning benchmark.
SuiteEntries(run) ==
    IF run.feature = "Pruning"
    THEN <<[scale |-> "median", feature |-> "Pruning"],
           [scale |-> "none", feature |-> "Pruning"]>>
    ELSE <<run>>

Failures(log) == Cardinality({k \in 1..Len(log) : ~log[k].ok})

\* The outcomes a cell can have: it returns (TRUE) or raises an Exception.
Outcomes(log) == IF Failures(log) < MaxFailures THEN {TRUE, FALSE} ELSE {TRUE}

MainPrograms == {"unified", "load_tests", "load_tests_all", "benchmarks_optuna"}

MainInit ==
    /\ m_prog \in MainPrograms
    /\ m_pc = "running"
    /\ m_log = <<>>
    /\ m_results = <<>>
    /\ m_file = <<>>

\* No main program is running.
MainIdle ==
    /\ m_prog = "unified"
    /\ m_pc = "idle"
    /\ m_log = <<>>
    /\ m_results = <<>>
    /\ m_file = <<>>

\* Mutant of UnifiedAfterError: the except clause leaves the loops.
UnifiedAfterErrorAbort == "aborted"

\* unified_benchmark.main, `except Exception as e: print(...)`: the loop goes on.
UnifiedAfterError == "running"

\* unified_benchmark.main: one iteration of `for feature in FEATURES`.
UnifiedCell ==
    /\ m_prog = "unified"
    /\ m_pc = "running"
    /\ Len(m_log) < Len(UnifiedCells)
    /\ LET cell == UnifiedCells[Len(m_log) + 1] IN
       \E ok \in Outcomes(m_log) :
          /\ m_log' = Append(m_log, [cell |-> cell, ok |-> ok])
          /\ m_results' = IF ok THEN Append(m_results, cell) ELSE m_results
          /\ m_pc' = IF ok THEN m_pc ELSE UnifiedAfterError
    /\ UNCHANGED <<m_prog, m_file>>
    /\ UNCHANGED not_main_vars

\* unified_benchmark.main: json.dump(results, f) after the loops.
UnifiedSave ==
    /\ m_prog = "unified"
    /\ m_pc = "running"
    /\ Len(m_log) = Len(UnifiedCells)
    /\ m_file' = <<m_results>>
    /\ m_pc' = "saved"
    /\ UNCHANGED <<m_prog, m_log, m_results>>
    /\ UNCHANGED not_main_vars

\* load_tests_comprehensive.main: one of the four try blocks of one scale.
LoadTestsCell ==
    /\ m_prog \in {"load_tests", "load_tests_all"}
    /\ m_pc = "running"
    /\ Len(m_log) < Len(LoadTestsCells(m_prog))
    /\ LET cell == LoadTestsCells(m_prog)[Len(m_log) + 1] IN
       \E ok \in Outcomes(m_log) :
          /\ m_log' = Append(m_log, [cell |-> cell, ok |-> ok])
          /\ m_results' = IF ok THEN Append(m_results, cell) ELSE m_results
    /\ UNCHANGED <<m_prog, m_pc, m_file>>
    /\ UNCHANGED not_main_vars

\* load_tests_comprehensive.main: json.dump(all_results, f) after the loop.
LoadTestsSave ==
    /\ m_prog \in {"load_tests", "load_tests_all"}
    /\ m_pc = "running"
    /\ Len(m_log) = Len(LoadTestsCells(m_prog))
    /\ m_file' = <<m_results>>
    /\ m_pc' = "saved"
    /\ UNCHANGED <<m_prog, m_log, m_results>>
    /\ UNCHANGED not_main_vars

\* benchmarks_optuna.main: one benchmark run inside the single try block; an
\* exception reaches `except Exception as e: ...; return`.
SuiteRun ==
    /\ m_prog = "benchmarks_optuna"
    /\ m_pc = "running"
    /\ Len(m_log) < Len(SuiteRuns)
    /\ LET run == SuiteRuns[Len(m_log) + 1] IN
       \E ok \in Outcomes(m_log) :
          /\ m_log' = Append(m_log, [cell |-> run, ok |-> ok])
          /\ m_results' = IF ok THEN m_results \o SuiteEntries(run) ELSE m_results
          /\ m_pc' = IF ok THEN m_pc ELSE "aborted"
    /\ UNCHANGED <<m_prog, m_file>>
    /\ UNCHANGED not_main_vars

\* benchmarks_optuna.main: json.dump(all_results, f) after the try block.
SuiteSave ==
    /\ m_prog = "benchmarks_optuna"
    /\ m_pc = "running"
    /\ Len(m_log) = Len(SuiteRuns)
    /\ m_file' = <<m_results>>
    /\ m_pc' = "saved"
    /\ UNCHANGED <<m_prog, m_log, m_results>>
    /\ UNCHANGED not_main_vars

\* ------------------------------------------------------- generate_report.py
\* Largest number of *.json files in the input directory.
MaxFiles == 3

\* Mutant of key: the tier is left out of the configuration key.
key_without_tier(r) == <<r.sampler, r.objective, r.n_params, r.n_trials, r.pruner, "fast">>

\* BenchmarkResult.key
key(r) == <<r.sampler, r.objective, r.n_params, r.n_trials, r.pruner, r.tier>>

\* The float values of a record are fixed-point numbers: Scale units make 1.0.
Scale == 10000

\* A JSON value read into a numeric field: a finite float, Infinity, -Infinity,
\* NaN (json.load accepts the three tokens) or null.
Num(v) == [t |-> "num", v |-> v]
PosInf == [t |-> "inf", v |-> 0]
NegInf == [t |-> "-inf", v |-> 0]
NaN == [t |-> "nan", v |-> 0]
Null == [t |-> "null", v |-> 0]

\* x == float("inf")
py_eq_inf(x) == x.t = "inf"

\* a < b, a > b, a >= b and abs(a) raise TypeError on None.
py_raises(x) == x.t = "null"

\* a < b on floats: False whenever a NaN is compared.
py_lt(a, b) ==
    CASE a.t = "-inf" -> b.t \in {"num", "inf"}
      [] a.t = "num" -> (b.t = "inf" \/ (b.t = "num" /\ a.v < b.v))
      [] OTHER -> FALSE

\* a > b
py_gt(a, b) == py_lt(b, a)

\* a >= b on floats
py_ge(a, b) ==
    /\ a.t \in {"num", "inf", "-inf"}
    /\ b.t \in {"num", "inf", "-inf"}
    /\ ~py_lt(a, b)

\* abs(x)
py_abs(x) ==
    CASE x.t = "num" -> Num(IF x.v < 0 THEN -x.v ELSE x.v)
      [] x.t = "-inf" -> PosInf
      [] OTHER -> x

\* The text of f"{x / per:<spec>}<suffix>": the digits of a finite float in the
\* format of spec, and the token inf, -inf or nan for the others.
Fmt(spec, x, per, suffix) ==
    [text |-> IF x.t = "num" THEN "digits" ELSE x.t,
     spec |-> spec, arg |-> x, per |-> per, suffix |-> suffix]

\* The literal "N/A".
NA == [text |-> "N/A", spec |-> "", arg |-> PosInf, per |-> 1, suffix |-> ""]

\* format_value(value, is_time) raises TypeError: value is None, which is not
\* equal to float("inf") and has neither an order nor an abs.
format_value_raises(value, is_time) == ~py_eq_inf(value) /\ py_raises(value)

\* format_value(value, is_time), when it does not raise.
format_value(value, is_time) ==
    IF py_eq_inf(value) THEN NA
    ELSE IF is_time
         THEN IF py_ge(value, Num(60000 * Scale)) THEN Fmt(".1f", value, 1000, "s")
              ELSE Fmt(".0f", value, 1, "ms")
         ELSE IF py_lt(py_abs(value), Num(Scale \div 1000)) THEN Fmt(".2e", value, 1, "")
              ELSE IF py_lt(py_abs(value), Num(Scale)) THEN Fmt(".4f", value, 1, "")
              ELSE Fmt(".2f", value, 1, "")

\* The 14 fields BenchmarkResult.__init__ reads.
BaseRecord ==
    [framework |-> "optuna", sampler |-> "tpe", objective |-> "sphere", n_params |-> 2,
     n_trials |-> 10, pruner |-> "none", tier |-> "fast",
     best_value |-> Num(1200), elapsed_ms |-> Num(200 * Scale),
     trials_per_second |-> Num(50 * Scale), pruned_trials |-> 0,
     pruning_rate |-> Num(0),
     convergence |-> <<Num(25000), Num(9000), Num(1200), Num(1200), Num(1200)>>,
     seed |-> 42]

\* The records the files of the directory can hold: the base configuration and
\* the configurations that differ from it in exactly one of the six key fields,
\* each from either framework.
RecordPool ==
    LET variants ==
          {BaseRecord,
           [BaseRecord EXCEPT !.sampler = "random"],
           [BaseRecord EXCEPT !.objective = "ackley"],
           [BaseRecord EXCEPT !.n_params = 5],
           [BaseRecord EXCEPT !.n_trials = 50],
           [BaseRecord EXCEPT !.pruner = "median", !.pruned_trials = 4,
                              !.pruning_rate = Num(4000)],
           [BaseRecord EXCEPT !.tier = "extended"]}
    IN  {[v EXCEPT !.framework = f] : v \in variants, f \in {"optisharp", "optuna"}}

\* The keys BenchmarkResult.__init__ reads of the parsed object, in order.
RequiredFields ==
    <<"framework", "sampler", "objective", "n_params", "n_trials", "pruner", "tier",
      "best_value", "elapsed_ms", "trials_per_second", "pruned_trials", "pruning_rate",
      "convergence", "seed">>

\* What a file name of the directory can stand for: no such file, a file that
\* json.load rejects ("bad"), or a parsed object: a well-formed record (missing
\* = "") or the base record without its first or its last required field.
Contents ==
    {[kind |-> "absent", data |-> BaseRecord, missing |-> ""],
     [kind |-> "bad", data |-> BaseRecord, missing |-> ""]}
        \cup {[kind |-> "record", data |-> r, missing |-> ""] : r \in RecordPool}
        \cup {[kind |-> "record", data |-> BaseRecord, missing |-> f] :
                 f \in {RequiredFields[1], RequiredFields[Len(RequiredFields)]}}

\* BenchmarkResult(data) raises KeyError: a required field is not in data.
BenchmarkResult_raises(content) ==
    \E i \in DOMAIN RequiredFields : content.missing = RequiredFields[i]

\* The best_value a file of a rendered directory can hold: 0.08, 0.12, the three
\* non-finite floats and null.
BestValues == {Num(800), Num(1200), PosInf, NegInf, NaN, Null}

\* The records of the directories whose report is rendered in full: the base
\* configuration from optisharp and from optuna with every best_value, the base
\* configuration from a third framework name, and the median-pruner
\* configuration from optisharp and from optuna.
TablePool ==
    {[BaseRecord EXCEPT !.framework = f, !.best_value = b] :
        f \in {"optisharp", "optuna"}, b \in BestValues}
    \cup {[BaseRecord EXCEPT !.framework = "other"]}
    \cup {[BaseRecord EXCEPT !.framework = f, !.pruner = "median", !.pruned_trials = 4,
                             !.pruning_rate = Num(4000)] : f \in {"optisharp", "optuna"}}

TableContents ==
    {[kind |-> "absent", data |-> BaseRecord, missing |-> ""],
     [kind |-> "bad", data |-> BaseRecord, missing |-> ""]}
        \cup {[kind |-> "record", data |-> r, missing |-> ""] : r \in TablePool}

FileNames == 1..MaxFiles

\* generate_report is called on a directory of TableContents.
TablesInit ==
    /\ r_exists \in BOOLEAN
    /\ r_dir \in [FileNames -> TableContents]
    /\ r_exists = FALSE => \A n \in FileNames : r_dir[n].kind = "absent"
    /\ r_pc = "start"
    /\ r_results = <<>>
    /\ r_files = <<>>
    /\ r_grouped = <<>>
    /\ r_doc = <<>>

ReportInit ==
    /\ r_exists \in BOOLEAN
    /\ r_dir \in [FileNames -> Contents]
    /\ r_exists = FALSE => \A n \in FileNames : r_dir[n].kind = "absent"
    /\ r_pc = "start"
    /\ r_results = <<>>
    /\ r_files = <<>>
    /\ r_grouped = <<>>
    /\ r_doc = <<>>

\* generate_report has not been called.
ReportIdle ==
    /\ r_exists = FALSE
    /\ r_dir = <<>>
    /\ r_pc = "idle"
    /\ r_results = <<>>
    /\ r_files = <<>>
    /\ r_grouped = <<>>
    /\ r_doc = <<>>

RECURSIVE SortedSeq(_)
\* sorted(input_path.glob("*.json")): the names in ascending order.
SortedSeq(S) ==
    IF S = {} THEN <<>>
    ELSE LET m == Min(S) IN <<m>> \o SortedSeq(S \ {m})

\* input_path.glob("*.json")
Glob(dir) == {n \in DOMAIN dir : dir[n].kind /= "absent"}

\* The try block of load_results appends the file: json.load and
\* BenchmarkResult(data) have not raised.
Loads(content) == content.kind = "record" /\ ~BenchmarkResult_raises(content)

RECURSIVE LoadLoopStop(_, _, _)
\* Mutant of LoadLoop: the first file that raises ends the loop.
LoadLoopStop(dir, names, acc) ==
    IF names = <<>> THEN acc
    ELSE LET n == Head(names) IN
         IF Loads(dir[n])
         THEN LoadLoopStop(dir, Tail(names),
                           [results |-> Append(acc.results, dir[n].data),
                            files |-> Append(acc.files, n)])
         ELSE acc

RECURSIVE LoadLoop(_, _, _)
\* The for loop of load_results over the sorted files: a file that raises in
\* json.load or in BenchmarkResult(data) is skipped with a warning.
LoadLoop(dir, names, acc) ==
    IF names = <<>> THEN acc
    ELSE LET n == Head(names) IN
         LoadLoop(dir, Tail(names),
                  IF Loads(dir[n])
                  THEN [results |-> Append(acc.results, dir[n].data),
                        files |-> Append(acc.files, n)]
                  ELSE acc)

\* load_results(input_dir)
load_results(exists, dir) ==
    IF ~exists THEN [results |-> <<>>, files |-> <<>>]
    ELSE LoadLoop(dir, SortedSeq(Glob(dir)), [results |-> <<>>, files |-> <<>>])

\* Mutant of GroupStore: an entry already present is kept (setdefault).
GroupStoreFirstWins(grouped, k, fw, i) ==
    IF k \in DOMAIN grouped /\ fw \in DOMAIN grouped[k] THEN grouped
    ELSE [g \in DOMAIN grouped \cup {k} |->
            IF g = k
            THEN [f \in (IF k \in DOMAIN grouped THEN DOMAIN grouped[k] ELSE {}) \cup {fw} |->
                    IF f = fw THEN i ELSE grouped[k][f]]
            ELSE grouped[g]]

\* grouped[key][result.framework] = result, on a defaultdict(dict).
GroupStore(grouped, k, fw, i) ==
    [g \in DOMAIN grouped \cup {k} |->
        IF g = k
        THEN [f \in (IF k \in DOMAIN grouped THEN DOMAIN grouped[k] ELSE {}) \cup {fw} |->
                IF f = fw THEN i ELSE grouped[k][f]]
        ELSE grouped[g]]

RECURSIVE GroupLoop(_, _, _)
\* The for loop of group_by_config from position i on.
GroupLoop(results, i, grouped) ==
    IF i > Len(results) THEN grouped
    ELSE GroupLoop(results, i + 1,
                   GroupStore(grouped, key(results[i]), results[i].framework, i))

\* group_by_config(results)
group_by_config(results) == GroupLoop(results, 1, <<>>)

\* The strings of the key fields in ascending order of str comparison.
StringOrder ==
    <<"ackley", "extended", "fast", "median", "none", "random", "sphere", "tpe">>

\* a < b on two of these strings.
str_lt(a, b) ==
    \E i, j \in 1..Len(StringOrder) : i < j /\ StringOrder[i] = a /\ StringOrder[j] = b

\* k1 < k2 on key tuples (sampler, objective, n_params, n_trials, pruner, tier):
\* the first field that differs decides.
key_lt(k1, k2) ==
    \/ str_lt(k1[1], k2[1])
    \/ k1[1] = k2[1] /\ str_lt(k1[2], k2[2])
    \/ k1[1] = k2[1] /\ k1[2] = k2[2] /\ k1[3] < k2[3]
    \/ k1[1] = k2[1] /\ k1[2] = k2[2] /\ k1[3] = k2[3] /\ k1[4] < k2[4]
    \/ k1[1] = k2[1] /\ k1[2] = k2[2] /\ k1[3] = k2[3] /\ k1[4] = k2[4]
          /\ str_lt(k1[5], k2[5])
    \/ k1[1] = k2[1] /\ k1[2] = k2[2] /\ k1[3] = k2[3] /\ k1[4] = k2[4]
          /\ k1[5] = k2[5] /\ str_lt(k1[6], k2[6])

RECURSIVE sorted_keys(_)
\* The keys of sorted(grouped.items()), in order.
sorted_keys(K) ==
    IF K = {} THEN <<>>
    ELSE LET m == CHOOSE k \in K : \A o \in K \ {k} : key_lt(k, o)
         IN  <<m>> \o sorted_keys(K \ {m})

\* cs = frameworks.get("optisharp"); py = frameworks.get("optuna"); if cs and py
has_cs_and_py(frameworks) ==
    "optisharp" \in DOMAIN frameworks /\ "optuna" \in DOMAIN frameworks

\* Mutant of quality_winner: the smaller or equal value wins.
quality_winner_le(cs_best, py_best) ==
    IF ~py_eq_inf(cs_best) /\ ~py_eq_inf(py_best) /\ ~py_lt(py_best, cs_best)
    THEN "OptiSharp"
    ELSE IF ~py_eq_inf(py_best) /\ ~py_eq_inf(cs_best) /\ py_lt(py_best, cs_best)
         THEN "Optuna"
         ELSE "Tie"

\* The winner expression of the quality table.
quality_winner(cs_best, py_best) ==
    IF ~py_eq_inf(cs_best) /\ ~py_eq_inf(py_best) /\ py_lt(cs_best, py_best)
    THEN "OptiSharp"
    ELSE IF ~py_eq_inf(py_best) /\ ~py_eq_inf(cs_best) /\ py_lt(py_best, cs_best)
         THEN "Optuna"
         ELSE "Tie"

\* The winner expression of the throughput table.
throughput_winner(cs_tps, py_tps) ==
    IF py_gt(cs_tps, py_tps) THEN "OptiSharp"
    ELSE IF py_gt(py_tps, cs_tps) THEN "Optuna"
         ELSE "Tie"

\* The keys of the rows of the quality table, in order.
quality_keys(grouped) ==
    SelectSeq(sorted_keys(DOMAIN grouped), LAMBDA k : has_cs_and_py(grouped[k]))

\* Mutant of throughput_keys: the test of the pruner is left out.
throughput_keys_any_pruner(grouped) ==
    SelectSeq(sorted_keys(DOMAIN grouped), LAMBDA k : has_cs_and_py(grouped[k]))

\* The keys of the rows of the throughput table, in order.
throughput_keys(grouped) ==
    SelectSeq(sorted_keys(DOMAIN grouped),
              LAMBDA k : k[5] = "none" /\ has_cs_and_py(grouped[k]))

\* generate_summary_tables raises TypeError: a row formats or compares None.
generate_summary_tables_raises(results, grouped) ==
    \/ \E k \in DOMAIN grouped :
          /\ has_cs_and_py(grouped[k])
          /\ LET cs == results[grouped[k]["optisharp"]].best_value
                 py == results[grouped[k]["optuna"]].best_value
             IN  \/ format_value_raises(cs, FALSE)
                 \/ format_value_raises(py, FALSE)
                 \/ ~py_eq_inf(cs) /\ ~py_eq_inf(py) /\ (py_raises(cs) \/ py_raises(py))
    \/ \E k \in DOMAIN grouped :
          /\ k[5] = "none" /\ has_cs_and_py(grouped[k])
          /\ LET cs == results[grouped[k]["optisharp"]].trials_per_second
                 py == results[grouped[k]["optuna"]].trials_per_second
             IN  \/ format_value_raises(cs, FALSE)
                 \/ format_value_raises(py, FALSE)
                 \/ py_raises(cs) \/ py_raises(py)

\* generate_summary_tables(grouped), when it does not raise: <<>> for the empty
\* text, else the rows of the quality table and of the throughput table.
generate_summary_tables(results, grouped) ==
    IF DOMAIN grouped = {} THEN <<>>
    ELSE LET qk == quality_keys(grouped)
             tk == throughput_keys(grouped)
         IN  <<[quality |->
                  [i \in 1..Len(qk) |->
                     LET cs == results[grouped[qk[i]]["optisharp"]]
                         py == results[grouped[qk[i]]["optuna"]]
                     IN  [key |-> qk[i],
                          cs_val |-> format_value(cs.best_value, FALSE),
                          py_val |-> format_value(py.best_value, FALSE),
                          winner |-> quality_winner(cs.best_value, py.best_value)]],
                throughput |->
                  [i \in 1..Len(tk) |->
                     LET cs == results[grouped[tk[i]]["optisharp"]]
                         py == results[grouped[tk[i]]["optuna"]]
                     IN  [key |-> tk[i],
                          cs_tps |-> format_value(cs.trials_per_second, FALSE),
                          py_tps |-> format_value(py.trials_per_second, FALSE),
                          winner |-> throughput_winner(cs.trials_per_second,
                                                       py.trials_per_second)]]]>>

\* str.capitalize on the objective names of the records.
capitalize(name) ==
    CASE name = "sphere" -> "Sphere"
      [] name = "ackley" -> "Ackley"
      [] OTHER -> name

\* " / ".join(format_value(v) for v in convergence)
conv_str(conv) == [i \in 1..Len(conv) |-> format_value(conv[i], FALSE)]

\* Mutant of convergence_rows_of: a row needs both frameworks.
convergence_rows_of_pairs(results, frameworks, k) ==
    IF has_cs_and_py(frameworks)
    THEN <<[key |-> k, config_name |-> "OptiSharp",
            conv |-> conv_str(results[frameworks["optisharp"]].convergence)],
           [key |-> k, config_name |-> "Optuna",
            conv |-> conv_str(results[frameworks["optuna"]].convergence)]>>
    ELSE <<>>

\* The rows one key adds to a convergence table: `if cs:` and `if py:`.
convergence_rows_of(results, frameworks, k) ==
    (IF "optisharp" \in DOMAIN frameworks
     THEN <<[key |-> k, config_name |-> "OptiSharp",
             conv |-> conv_str(results[frameworks["optisharp"]].convergence)]>>
     ELSE <<>>)
    \o
    (IF "optuna" \in DOMAIN frameworks
     THEN <<[key |-> k, config_name |-> "Optuna",
             conv |-> conv_str(results[frameworks["optuna"]].convergence)]>>
     ELSE <<>>)

RECURSIVE convergence_rows(_, _, _)
\* The rows of the convergence table of one objective, keys being its sorted
\* configurations.
convergence_rows(results, grouped, keys) ==
    IF keys = <<>> THEN <<>>
    ELSE convergence_rows_of(results, grouped[Head(keys)], Head(keys))
            \o convergence_rows(results, grouped, Tail(keys))

\* sorted(set(k[1] for k in grouped.keys()))
sorted_objectives(grouped) ==
    SelectSeq(StringOrder, LAMBDA o : \E k \in DOMAIN grouped : k[2] = o)

\* generate_per_objective_section raises TypeError: a convergence entry of a
\* row is None.
generate_per_objective_section_raises(results, grouped) ==
    \E k \in DOMAIN grouped : \E f \in DOMAIN grouped[k] \cap {"optisharp", "optuna"} :
        \E i \in DOMAIN results[grouped[k][f]].convergence :
            format_value_raises(results[grouped[k][f]].convergence[i], FALSE)

\* generate_per_objective_section(grouped), when it does not raise: one
\* sub-section per objective, each with its convergence table.
generate_per_objective_section(results, grouped) ==
    LET objectives == sorted_objectives(grouped) IN
    [i \in 1..Len(objectives) |->
        [title |-> capitalize(objectives[i]),
         rows |-> convergence_rows(results, grouped,
                     SelectSeq(sorted_keys(DOMAIN grouped),
                               LAMBDA k : k[2] = objectives[i]))]]

\* pruned_configs = {k: v for k, v in grouped.items() if k[4] != "none"}
pruned_configs(grouped) == {k \in DOMAIN grouped : k[5] /= "none"}

\* generate_pruning_section raises TypeError: a row multiplies or formats None.
generate_pruning_section_raises(results, grouped) ==
    \E k \in pruned_configs(grouped) :
        /\ has_cs_and_py(grouped[k])
        /\ \E f \in {"optisharp", "optuna"} :
              \/ py_raises(results[grouped[k][f]].pruning_rate)
              \/ format_value_raises(results[grouped[k][f]].trials_per_second, FALSE)

\* pruning_rate * 100
times100(x) == IF x.t = "num" THEN Num(x.v * 100) ELSE x

\* generate_pruning_section(grouped), when it does not raise: <<>> for the
\* empty text, else the rows of the pruning table.
generate_pruning_section(results, grouped) ==
    IF pruned_configs(grouped) = {} THEN <<>>
    ELSE LET pk == SelectSeq(sorted_keys(pruned_configs(grouped)),
                             LAMBDA k : has_cs_and_py(grouped[k]))
         IN  <<[i \in 1..Len(pk) |->
                  LET cs == results[grouped[pk[i]]["optisharp"]]
                      py == results[grouped[pk[i]]["optuna"]]
                  IN  [key |-> pk[i],
                       cs_rate |-> Fmt(".1f", times100(cs.pruning_rate), 1, "%"),
                       py_rate |-> Fmt(".1f", times100(py.pruning_rate), 1, "%"),
                       cs_tps |-> format_value(cs.trials_per_second, FALSE),
                       py_tps |-> format_value(py.trials_per_second, FALSE)]]>>

\* completed = sum(1 for frameworks in grouped.values() if len(frameworks) == 2)
completed(grouped) ==
    Cardinality({k \in DOMAIN grouped : Cardinality(DOMAIN grouped[k]) = 2})

\* Mutant of total_expected: never less than one.
total_expected_floor(grouped) ==
    IF DOMAIN grouped = {} THEN 1 ELSE Cardinality(DOMAIN grouped)

\* total_expected = len(grouped)
total_expected(grouped) == Cardinality(DOMAIN grouped)

\* generate_report: results = load_results(input_dir)
LoadResults ==
    /\ r_pc = "start"
    /\ LET loaded == load_results(r_exists, r_dir) IN
          /\ r_results' = loaded.results
          /\ r_files' = loaded.files
    /\ r_pc' = "loaded"
    /\ UNCHANGED <<r_exists, r_dir, r_grouped, r_doc>>
    /\ UNCHANGED not_report_vars

\* generate_report: grouped = group_by_config(results)
GroupByConfig ==
    /\ r_pc = "loaded"
    /\ r_grouped' = group_by_config(r_results)
    /\ r_pc' = "grouped"
    /\ UNCHANGED <<r_exists, r_dir, r_results, r_files, r_doc>>
    /\ UNCHANGED not_report_vars

\* The finite values format_value is called with: zero, the neighbours of the
\* thresholds 0.001, 1 and 60000, and values between them.
FiniteInputs ==
    {0, 1, (Scale \div 1000) - 1, Scale \div 1000, 800, 1200, Scale - 1, Scale, 25000,
     (60000 * Scale) - 1, 60000 * Scale, 90000 * Scale}

\* The values format_value is called with.
FormatInputs ==
    {Num(v) : v \in FiniteInputs} \cup {Num(-v) : v \in FiniteInputs}
        \cup {PosInf, NegInf, NaN, Null}

FormatInit ==
    /\ f_value \in FormatInputs
    /\ f_is_time \in BOOLEAN
    /\ f_pc = "call"
    /\ f_out = <<>>

\* format_value has not been called.
FormatIdle ==
    /\ f_value = Num(0)
    /\ f_is_time = FALSE
    /\ f_pc = "idle"
    /\ f_out = <<>>

\* One call format_value(value, is_time).
FormatValue ==
    /\ f_pc = "call"
    /\ IF format_value_raises(f_value, f_is_time)
       THEN /\ f_pc' = "raised"
            /\ f_out' = <<>>
       ELSE /\ f_pc' = "returned"
            /\ f_out' = <<format_value(f_value, f_is_time)>>
    /\ UNCHANGED <<f_value, f_is_time>>
    /\ UNCHANGED not_format_vars

\* generate_report after the grouping: the header, the progress line, the three
\* sections and the footer; an exception of a section leaves generate_report.
RenderReport ==
    /\ r_pc = "grouped"
    /\ IF \/ generate_summary_tables_raises(r_results, r_grouped)
          \/ generate_per_objective_section_raises(r_results, r_grouped)
          \/ generate_pruning_section_raises(r_results, r_grouped)
       THEN /\ r_pc' = "raised"
            /\ r_doc' = <<>>
       ELSE /\ r_pc' = "returned"
            /\ r_doc' = <<[header |-> "# OptiSharp vs Optuna",
                           progress |-> [completed |-> completed(r_grouped),
                                         total_expected |-> total_expected(r_grouped)],
                           summary |-> generate_summary_tables(r_results, r_grouped),
                           per_objective |->
                               IF DOMAIN r_grouped = {} THEN <<>>
                               ELSE generate_per_objective_section(r_results, r_grouped),
                           pruning |-> generate_pruning_section(r_results, r_grouped),
                           footer |-> "*Lower is better*"]>>
    /\ UNCHANGED <<r_exists, r_dir, r_results, r_files, r_grouped>>
    /\ UNCHANGED not_report_vars

\* ------------------------------------- optuna_matrix.BenchmarkResult.save
\* save calls on one path that a run of the model follows.
MaxSaves == 2

\* The results that are saved: objects of optuna_matrix.BenchmarkResult, whose
\* framework is always "optuna".
SavePool ==
    {BaseRecord,
     [BaseRecord EXCEPT !.best_value = Num(800),
                        !.convergence = <<Num(25000), Num(9000), Num(1200), Num(800),
                                          Num(800)>>],
     [BaseRecord EXCEPT !.pruner = "median", !.pruned_trials = 4,
                        !.pruning_rate = Num(4000)]}

\* The paths save is called with, all in the one directory: a name with the
\* suffix .json for each file name, and a name with another suffix.
SavePaths ==
    {[name |-> n, suffix |-> ".json"] : n \in FileNames}
        \cup {[name |-> 1, suffix |-> ".txt"]}

\* The pattern "*.json" of input_path.glob matches the path.
matches_json(path) == path.suffix = ".json"

\* BenchmarkResult.to_dict()
to_dict(res) ==
    [framework |-> res.framework, sampler |-> res.sampler,
     objective |-> res.objective, n_params |-> res.n_params,
     n_trials |-> res.n_trials, pruner |-> res.pruner, tier |-> res.tier,
     best_value |-> res.best_value, elapsed_ms |-> res.elapsed_ms,
     trials_per_second |-> res.trials_per_second,
     pruned_trials |-> res.pruned_trials, pruning_rate |-> res.pruning_rate,
     convergence |-> res.convergence, seed |-> res.seed]

\* json.dump of a float: a number, or one of the tokens Infinity, -Infinity, NaN.
dump_float(x) ==
    CASE x.t = "num" -> [tok |-> "number", v |-> x.v]
      [] x.t = "inf" -> [tok |-> "Infinity", v |-> 0]
      [] x.t = "-inf" -> [tok |-> "-Infinity", v |-> 0]
      [] x.t = "nan" -> [tok |-> "NaN", v |-> 0]
      [] x.t = "null" -> [tok |-> "null", v |-> 0]

\* json.load of a number, of one of the tokens, or of null.
load_float(j) ==
    CASE j.tok = "number" -> Num(j.v)
      [] j.tok = "Infinity" -> PosInf
      [] j.tok = "-Infinity" -> NegInf
      [] j.tok = "NaN" -> NaN
      [] j.tok = "null" -> Null

\* json.dump(self.to_dict(), f, indent=2): the text of the floats of the object;
\* strings and integers are written as they are.
json_dump(d) ==
    [d EXCEPT !.best_value = dump_float(@), !.elapsed_ms = dump_float(@),
              !.trials_per_second = dump_float(@), !.pruning_rate = dump_float(@),
              !.convergence = [i \in DOMAIN @ |-> dump_float(@[i])]]

\* json.load(f) of a text json.dump wrote.
json_load(text) ==
    [text EXCEPT !.best_value = load_float(@), !.elapsed_ms = load_float(@),
                 !.trials_per_second = load_float(@), !.pruning_rate = load_float(@),
                 !.convergence = [i \in DOMAIN @ |-> load_float(@[i])]]

\* What load_results finds in a file that holds the object d: the first key of
\* RequiredFields that d lacks is the one BenchmarkResult(data) raises on.
Parsed(d) ==
    LET lacking == {i \in DOMAIN RequiredFields : RequiredFields[i] \notin DOMAIN d} IN
    [kind |-> "record", data |-> d,
     missing |-> IF lacking = {} THEN "" ELSE RequiredFields[Min(lacking)]]

\* Mutant of write_file: an existing file is kept (mode "x" with the error
\* ignored).
write_file_exclusive(dir, name, text) ==
    IF dir[name].kind = "absent"
    THEN [dir EXCEPT ![name] = Parsed(json_load(text))]
    ELSE dir

\* with open(path, "w") as f: json.dump(...): the file holds the new text only.
write_file(dir, name, text) == [dir EXCEPT ![name] = Parsed(json_load(text))]

\* Saves into an empty or not yet existing directory, then load_results.
StoreInit ==
    /\ s_saved = [p \in SavePaths |-> [n |-> 0, last |-> <<>>]]
    /\ r_exists \in BOOLEAN
    /\ r_dir = [n \in FileNames |-> [kind |-> "absent", data |-> BaseRecord, missing |-> ""]]
    /\ r_pc = "start"
    /\ r_results = <<>>
    /\ r_files = <<>>
    /\ r_grouped = <<>>
    /\ r_doc = <<>>

\* save has not been called.
StoreIdle == s_saved = <<>>

\* One call result.save(path): os.makedirs(dirname, exist_ok=True), then the
\* file at path is opened for writing and the dict is dumped into it.
SaveResult ==
    /\ r_pc = "start"
    /\ \E path \in SavePaths, res \in SavePool :
          /\ s_saved[path].n < MaxSaves
          /\ s_saved' = [s_saved EXCEPT ![path] = [n |-> @.n + 1, last |-> <<res>>]]
          /\ r_exists' = TRUE
          /\ r_dir' = IF matches_json(path)
                      THEN write_file(r_dir, path.name, json_dump(to_dict(res)))
                      ELSE r_dir
    /\ UNCHANGED <<r_pc, r_results, r_files, r_grouped, r_doc>>
    /\ UNCHANGED <<driver_vars, main_vars, format_vars, objective_vars, noise_vars,
                   cli_vars>>

\* ------------------------------------------------------ optuna_matrix.main
\* parse_args returns: the names are among the choices of the parser (any other
\* name ends the program in parser.error before main's try block).
ArgsAccepted(c) ==
    /\ c.sampler \in {"tpe", "random", "cmaes"}
    /\ c.objective \in {"sphere", "rosenbrock", "rastrigin", "ackley"}
    /\ c.pruner \in {"none", "median", "sha"}
    /\ c.tier \in {"fast", "extended"}

\* main has parsed its arguments and calls run_benchmark; the file at
\* args.output does not exist or holds the record of a previous run.
CliInit ==
    /\ x_pc = "run"
    /\ x_file \in {<<>>, <<[kind |-> "previous", data |-> <<>>]>>}
    /\ x_exit = -1

\* optuna_matrix.main is not running.
CliIdle ==
    /\ x_pc = "idle"
    /\ x_file = <<>>
    /\ x_exit = -1

\* result.save(args.output) writes the file, or raises OSError (in makedirs
\* or open, the file being left as it was, or while the text is written).
SaveOutcomes == {"written", "OSError"}

\* run_benchmark returned: result.save(args.output); print(...); return 0, or
\* save raises and `except Exception as e: print(...); return 1`.
OptunaMatrixSave ==
    /\ x_pc = "run"
    /\ pc = "returned"
    /\ \E outcome \in SaveOutcomes :
          IF outcome = "written"
          THEN /\ x_file' = <<[kind |-> "result", data |-> result]>>
               /\ x_exit' = 0
          ELSE /\ x_file' \in {x_file, <<[kind |-> "partial", data |-> <<>>]>>}
               /\ x_exit' = 1
    /\ x_pc' = "exited"
    /\ UNCHANGED not_cli_vars

\* Mutant of OptunaMatrixExcept: main has no except clause, the exception of
\* run_benchmark leaves main.
OptunaMatrixPropagates ==
    /\ x_pc = "run"
    /\ pc = "raised"
    /\ x_pc' = "propagated"
    /\ UNCHANGED <<x_file, x_exit>>
    /\ UNCHANGED not_cli_vars

\* run_benchmark raised: except Exception as e: print(...); return 1.
OptunaMatrixExcept ==
    /\ x_pc = "run"
    /\ pc = "raised"
    /\ x_exit' = 1
    /\ x_pc' = "exited"
    /\ UNCHANGED x_file
    /\ UNCHANGED not_cli_vars

\* --------------------------------------------------------- specifications
\* One call of run_benchmark.
Init ==
    /\ DriverInit /\ MainIdle /\ ReportIdle /\ FormatIdle /\ ObjectiveIdle
    /\ NoiseIdle /\ StoreIdle /\ CliIdle

Next == Call \/ Trial \/ OptimizeReturns \/ Finish

Spec == Init /\ [][Next]_vars

\* One run of a main program.
InitMain ==
    /\ MainInit /\ DriverIdle /\ ReportIdle /\ FormatIdle /\ ObjectiveIdle
    /\ NoiseIdle /\ StoreIdle /\ CliIdle

NextMain ==
    UnifiedCell \/ UnifiedSave \/ LoadTestsCell \/ LoadTestsSave \/ SuiteRun \/ SuiteSave

SpecMain == InitMain /\ [][NextMain]_vars

\* One run of generate_report on a results directory.
InitReport ==
    /\ ReportInit /\ DriverIdle /\ MainIdle /\ FormatIdle /\ ObjectiveIdle
    /\ NoiseIdle /\ StoreIdle /\ CliIdle

NextReport == LoadResults \/ GroupByConfig \/ RenderReport

SpecReport == InitReport /\ [][NextReport]_vars

\* One run of generate_report on a results directory whose records differ in
\* their best_value and their framework name.
InitTables ==
    /\ TablesInit /\ DriverIdle /\ MainIdle /\ FormatIdle /\ ObjectiveIdle
    /\ NoiseIdle /\ StoreIdle /\ CliIdle

NextTables == LoadResults \/ GroupByConfig \/ RenderReport

SpecTables == InitTables /\ [][NextTables]_vars

\* One call of format_value.
InitFormat ==
    /\ FormatInit /\ DriverIdle /\ MainIdle /\ ReportIdle /\ ObjectiveIdle
    /\ NoiseIdle /\ StoreIdle /\ CliIdle

NextFormat == FormatValue

SpecFormat == InitFormat /\ [][NextFormat]_vars

\* One call of the objective closure by study.optimize.
InitObjective ==
    /\ ObjectiveInit /\ DriverIdle /\ MainIdle /\ ReportIdle /\ FormatIdle
    /\ NoiseIdle /\ StoreIdle /\ CliIdle

NextObjective ==
    ObjectiveEvaluate \/ ObjectiveReport \/ ObjectiveShouldPrune \/ ObjectiveReturn

SpecObjective == InitObjective /\ [][NextObjective]_vars

\* Two calls of get_intermediate_value, up to the construction of the generator.
InitNoise ==
    /\ NoiseInit /\ DriverIdle /\ MainIdle /\ ReportIdle /\ FormatIdle /\ ObjectiveIdle
    /\ StoreIdle /\ CliIdle

NextNoise == SeedGenerators

SpecNoise == InitNoise /\ [][NextNoise]_vars

\* Calls of BenchmarkResult.save into one directory, then load_results on it.
InitStore ==
    /\ StoreInit /\ DriverIdle /\ MainIdle /\ FormatIdle /\ ObjectiveIdle
    /\ NoiseIdle /\ CliIdle

NextStore == SaveResult \/ LoadResults

SpecStore == InitStore /\ [][NextStore]_vars

\* One run of optuna_matrix.main with arguments parse_args accepts.
InitCli ==
    /\ DriverInit /\ ArgsAccepted(cfg) /\ CliInit
    /\ MainIdle /\ ReportIdle /\ FormatIdle /\ ObjectiveIdle /\ NoiseIdle /\ StoreIdle

NextCli ==
    Call \/ Trial \/ OptimizeReturns \/ Finish \/ OptunaMatrixSave \/ OptunaMatrixExcept

SpecCli == InitCli /\ [][NextCli]_vars

\* ------------------------------------------------------------------ claims
Terminal == pc \in {"returned", "raised"}

\* The names of cfg are those of a Configuration.
NamesCanonical ==
    /\ cfg.objective \in {"sphere", "rosenbrock", "rastrigin", "ackley"}
    /\ cfg.sampler \in {"tpe", "random", "cmaes"}
    /\ cfg.pruner \in {"none", "median", "sha"}

\* cfg is a Configuration: canonical names and a positive parameter count.
IsConfiguration == NamesCanonical /\ cfg.n_params >= 1

\* C1: for every configuration with n_trials >= 1, whatever the provider answers,
\* run_benchmark returns a result (it does not raise) and the result's
\* convergence has exactly 5 entries.
C1_ReturnsFiveCheckpoints ==
    (IsConfiguration /\ cfg.n_trials >= 1 /\ Terminal)
        => (pc = "returned" /\ Len(result) = 1 /\ Len(result[1].convergence) = 5)

\* C2: in every result returned by run_benchmark the convergence sequence is
\* non-increasing (direction minimize), padding included, and so is the list
\* while the trial loop is filling it.
C2_ConvergenceMonotone ==
    /\ \A i \in 1..(Len(convergence) - 1) : convergence[i + 1] <= convergence[i]
    /\ pc = "returned" =>
         \A i \in 1..4 : result[1].convergence[i + 1] <= result[1].convergence[i]

\* C2 witness: a returned result whose convergence strictly improved, in a run
\* with pruned trials whose last entries come from the padding.
C2_Witness ==
    /\ pc = "returned"
    /\ result[1].convergence[1] > result[1].convergence[5]
    /\ checkpoint_idx < 5
    /\ pruned_count > 0

\* C3: the pruned counter never exceeds the number of trials started, which
\* never exceeds n_trials; the counter grows by at most one per trial; the
\* returned result has pruned_trials <= n_trials and
\* pruning_rate = pruned_trials / n_trials.
C3_PrunedBounded ==
    /\ [](/\ pruned_count <= trial_number
          /\ (trial_number > 0 => trial_number <= cfg.n_trials)
          /\ pc = "returned" =>
               /\ result[1].pruned_trials = pruned_count
               /\ result[1].pruned_trials <= cfg.n_trials
               /\ result[1].pruning_rate.den > 0
               /\ result[1].pruning_rate.num * cfg.n_trials
                    = result[1].pruned_trials * result[1].pruning_rate.den)
    /\ [][/\ pruned_count' <= pruned_count + 1
          /\ pruned_count' >= pruned_count
          /\ (pruned_count' /= pruned_count => trial_number' = trial_number + 1)]_vars

\* C3 witness: a returned result of a run in which some but not all trials were
\* pruned.
C3_Witness ==
    /\ pc = "returned"
    /\ result[1].pruned_trials >= 2
    /\ result[1].pruned_trials < cfg.n_trials

\* C4: an exception other than the pruning signal raised during one trial does
\* not stop the loop: when study.optimize is over, exactly n_trials trials have
\* been attempted.
C4_AllTrialsAttempted ==
    (IsConfiguration /\ cfg.n_trials >= 1 /\ pc \in {"finish", "returned", "raised"})
        => trial_number = cfg.n_trials

\* C7 as claimed: an objective name outside {sphere, rosenbrock, rastrigin,
\* ackley}, a sampler name outside {tpe, random, cmaes} or a pruner name outside
\* {none, median, sha} makes run_benchmark raise before the study is created and
\* before any suggest or objective evaluation.
C7_UnknownNameRaises_Original ==
    (/\ \/ cfg.objective \notin {"sphere", "rosenbrock", "rastrigin", "ackley"}
        \/ cfg.sampler \notin {"tpe", "random", "cmaes"}
        \/ cfg.pruner \notin {"none", "median", "sha"}
     /\ pc /= "call")
        => (pc = "raised" /\ ~study_created /\ suggested = 0 /\ evaluated = 0)

\* C7 as amended: the objective name is compared in lower case; a name whose
\* lower-case form is outside the four objectives, a sampler name outside {tpe,
\* random, cmaes} or a pruner name outside {none, median, sha} makes
\* run_benchmark raise ValueError before the study is created and before any
\* suggest or objective evaluation.
C7_UnknownNameRaises ==
    (/\ \/ lower(cfg.objective) \notin {"sphere", "rosenbrock", "rastrigin", "ackley"}
        \/ cfg.sampler \notin {"tpe", "random", "cmaes"}
        \/ cfg.pruner \notin {"none", "median", "sha"}
     /\ pc /= "call")
        => (/\ pc = "raised" /\ error = "ValueError"
            /\ ~study_created /\ trial_number = 0 /\ suggested = 0 /\ evaluated = 0
            /\ result = <<>>)

\* C7 witness: run_benchmark has raised on a sampler name that differs from a
\* known one only by case, the objective and the pruner being known.
C7_Witness ==
    /\ pc = "raised"
    /\ cfg.sampler = "TPE"
    /\ cfg.objective = "Sphere"
    /\ cfg.pruner = "median"
    /\ ~study_created

\* C8: with n_trials <= 0 or n_params <= 0 (and names that are accepted)
\* run_benchmark fails before any trial runs: nothing is suggested, no objective
\* is evaluated, no result is returned.
C8_NonPositiveCountsRejected ==
    (NamesCanonical /\ (cfg.n_trials <= 0 \/ cfg.n_params <= 0))
        => (/\ trial_number = 0 /\ suggested = 0 /\ evaluated = 0
            /\ result = <<>>
            /\ pc /= "returned")

\* The cells a matrix program has to visit.
MatrixCells ==
    IF m_prog = "unified" THEN UnifiedCells ELSE LoadTestsCells(m_prog)

RECURSIVE Succeeded(_)
\* The cells of a log that returned, in order.
Succeeded(log) ==
    IF log = <<>> THEN <<>>
    ELSE (IF Head(log).ok THEN <<Head(log).cell>> ELSE <<>>) \o Succeeded(Tail(log))

\* C5: in unified_benchmark.main and load_tests_comprehensive.main a cell that
\* raises aborts only itself: the cells are attempted in matrix order whatever
\* the earlier outcomes, the results list holds exactly the cells that returned,
\* the run goes on until the results file is written, and the file holds the
\* results of all the cells that returned.
C5_CellFailureIsLocal ==
    m_prog \in {"unified", "load_tests", "load_tests_all"} =>
        /\ m_pc \in {"running", "saved"}
        /\ Len(m_log) <= Len(MatrixCells)
        /\ \A k \in 1..Len(m_log) : m_log[k].cell = MatrixCells[k]
        /\ m_results = Succeeded(m_log)
        /\ m_pc = "running" => ENABLED NextMain
        /\ m_pc = "saved" => Len(m_log) = Len(MatrixCells) /\ m_file = <<m_results>>

\* C5 witness: unified_benchmark.main has written its file after a run in which
\* the first cell raised, a later cell raised too, and the last cell returned.
C5_Witness ==
    /\ m_prog = "unified"
    /\ m_pc = "saved"
    /\ ~m_log[1].ok
    /\ ~m_log[6].ok
    /\ m_log[Len(m_log)].ok
    /\ Len(m_file[1]) = Len(UnifiedCells) - 2

\* C6: in benchmarks_optuna.main a run that raises aborts only itself: when main
\* is over every run has been attempted and the results file holds the results
\* of the runs that returned.
C6_RunFailureIsLocal ==
    (m_prog = "benchmarks_optuna" /\ m_pc \in {"saved", "aborted"}) =>
        /\ Len(m_log) = Len(SuiteRuns)
        /\ m_file /= <<>>

\* Result i of r_results is in the group of key k.
InGroup(i, k) == \E f \in DOMAIN r_grouped[k] : r_grouped[k][f] = i

\* The six key fields of a result, as the claims name them.
SixFields(r) == <<r.sampler, r.objective, r.n_params, r.n_trials, r.pruner, r.tier>>

\* A later result of the list has the same six fields and the same framework.
Superseded(i) ==
    \E j \in (i + 1)..Len(r_results) :
        /\ SixFields(r_results[j]) = SixFields(r_results[i])
        /\ r_results[j].framework = r_results[i].framework

\* C9 as claimed: every loaded result appears in exactly one group, the group
\* keyed by its six fields.
C9_GroupingIsPartition_Original ==
    r_pc = "grouped" =>
        \A i \in 1..Len(r_results) :
            /\ SixFields(r_results[i]) \in DOMAIN r_grouped
            /\ \A k \in DOMAIN r_grouped : InGroup(i, k) <=> k = SixFields(r_results[i])

\* C9 as amended: every loaded result that no later result with the same six
\* fields and the same framework supersedes appears in exactly one group, the
\* group keyed by its six fields (a superseded result appears in none); results
\* with the same six fields land in the same group, results that differ in one
\* of the six fields land in different groups, and every group member is a
\* loaded result.
C9_GroupingIsPartition ==
    r_pc = "grouped" =>
        /\ \A i \in 1..Len(r_results) :
              /\ SixFields(r_results[i]) \in DOMAIN r_grouped
              /\ \A k \in DOMAIN r_grouped :
                    InGroup(i, k) <=> (k = SixFields(r_results[i]) /\ ~Superseded(i))
        /\ \A k \in DOMAIN r_grouped : \A f \in DOMAIN r_grouped[k] :
              /\ r_grouped[k][f] \in 1..Len(r_results)
              /\ SixFields(r_results[r_grouped[k][f]]) = k
              /\ r_results[r_grouped[k][f]].framework = f
        /\ \A i, j \in 1..Len(r_results) : \A ki, kj \in DOMAIN r_grouped :
              (InGroup(i, ki) /\ InGroup(j, kj)) =>
                  (ki = kj <=> SixFields(r_results[i]) = SixFields(r_results[j]))

\* C9 witness: the grouping of three loaded results: two with the same six
\* fields from different frameworks, sharing a group, and one that differs from
\* them in the tier only, in a group of its own.
C9_Witness ==
    /\ r_pc = "grouped"
    /\ Len(r_results) = 3
    /\ SixFields(r_results[1]) = SixFields(r_results[2])
    /\ r_results[1].framework /= r_results[2].framework
    /\ r_results[3].tier /= r_results[1].tier
    /\ Cardinality(DOMAIN r_grouped) = 2
    /\ InGroup(1, SixFields(r_results[1])) /\ InGroup(2, SixFields(r_results[1]))
    /\ InGroup(3, SixFields(r_results[3]))

\* C10: the grouping keeps one result per (key, framework): of the loaded
\* results with the same six fields and the same framework the one loaded from
\* the greatest file name, which is the last of them in the list, is retained,
\* and load_results lists the well-formed files in ascending file-name order.
C10_LastWriteWins ==
    /\ r_pc \in {"loaded", "grouped"} =>
          /\ Len(r_files) = Len(r_results)
          /\ \A i \in 1..Len(r_files) :
                /\ Loads(r_dir[r_files[i]])
                /\ r_dir[r_files[i]].data = r_results[i]
          /\ \A i, j \in 1..Len(r_files) : i < j => r_files[i] < r_files[j]
    /\ r_pc = "grouped" =>
          \A n \in FileNames :
              (r_exists /\ Loads(r_dir[n])) =>
                  LET k == SixFields(r_dir[n].data)
                      f == r_dir[n].data.framework
                      same == {m \in FileNames :
                                  /\ Loads(r_dir[m])
                                  /\ SixFields(r_dir[m].data) = k
                                  /\ r_dir[m].data.framework = f}
                  IN  /\ k \in DOMAIN r_grouped
                      /\ f \in DOMAIN r_grouped[k]
                      /\ r_files[r_grouped[k][f]] = Max(same)

\* C10 witness: two loaded results share their six fields and their framework,
\* a bad file sits between them, and the grouping holds the later one.
C10_Witness ==
    /\ r_pc = "grouped"
    /\ Loads(r_dir[1]) /\ r_dir[2].kind = "bad" /\ Loads(r_dir[3])
    /\ r_dir[1].data = r_dir[3].data
    /\ r_grouped[SixFields(r_dir[3].data)][r_dir[3].data.framework] = 2
    /\ r_files[2] = 3

\* The best_value of the result of framework f in the group of key k.
BestOf(k, f) == r_results[r_grouped[k][f]].best_value

\* Both best_values of the group of key k are finite floats.
BothFinite(k) == BestOf(k, "optisharp").t = "num" /\ BestOf(k, "optuna").t = "num"

\* The winner with the two frameworks exchanged.
Exchanged(winner) ==
    CASE winner = "OptiSharp" -> "Optuna"
      [] winner = "Optuna" -> "OptiSharp"
      [] OTHER -> winner

\* C11: for a key with results from both frameworks whose best_values are both
\* finite, the winner of its quality-table row is the framework with the
\* strictly smaller best_value and is Tie exactly when the values are equal;
\* exchanging the two values exchanges the winner.
C11_QualityWinnerFinite ==
    r_pc = "returned" =>
        /\ \A k \in DOMAIN r_grouped :
              (has_cs_and_py(r_grouped[k]) /\ BothFinite(k)) =>
                  \E i \in DOMAIN r_doc[1].summary[1].quality :
                      r_doc[1].summary[1].quality[i].key = k
        /\ \A s \in DOMAIN r_doc[1].summary :
              \A i \in DOMAIN r_doc[1].summary[s].quality :
                 LET row == r_doc[1].summary[s].quality[i]
                     cs == BestOf(row.key, "optisharp")
                     py == BestOf(row.key, "optuna")
                 IN  BothFinite(row.key) =>
                        /\ row.winner = "OptiSharp" <=> cs.v < py.v
                        /\ row.winner = "Optuna" <=> py.v < cs.v
                        /\ row.winner = "Tie" <=> cs.v = py.v
                        /\ quality_winner(py, cs) = Exchanged(row.winner)

\* C11 witness: a returned document whose quality table has a row with the
\* values 0.12 (optisharp) and 0.08 (optuna) and the winner Optuna, next to a
\* key that only one framework has a result for.
C11_Witness ==
    /\ r_pc = "returned"
    /\ Len(r_doc[1].summary) = 1
    /\ Cardinality(DOMAIN r_grouped) = 2
    /\ \E i \in DOMAIN r_doc[1].summary[1].quality :
          LET row == r_doc[1].summary[1].quality[i] IN
             /\ BestOf(row.key, "optisharp") = Num(1200)
             /\ BestOf(row.key, "optuna") = Num(800)
             /\ row.winner = "Optuna"

\* C12: in the quality table, when the best_value of either framework is
\* non-finite (positive infinity, negative infinity or NaN) the winner of the
\* row is Tie, whatever the value of the other framework.
C12_NonFiniteIsTie ==
    r_pc = "returned" =>
        \A s \in DOMAIN r_doc[1].summary :
           \A i \in DOMAIN r_doc[1].summary[s].quality :
              LET row == r_doc[1].summary[s].quality[i] IN
                 (\/ BestOf(row.key, "optisharp").t \in {"inf", "-inf", "nan"}
                  \/ BestOf(row.key, "optuna").t \in {"inf", "-inf", "nan"})
                     => row.winner = "Tie"

\* C13: load_results on a directory that does not exist returns the empty list
\* without raising, and generate_report on it returns a document whose progress
\* line is 0/0.
C13_MissingDirectory ==
    (~r_exists /\ r_pc \notin {"idle", "start"}) =>
        /\ r_results = <<>>
        /\ r_pc /= "raised"
        /\ r_pc = "returned" =>
              r_doc[1].progress = [completed |-> 0, total_expected |-> 0]

\* C13 witness: generate_report has returned its document for a directory that
\* does not exist.
C13_Witness ==
    /\ ~r_exists
    /\ r_pc = "returned"
    /\ r_results = <<>>
    /\ r_doc[1].progress.total_expected = 0

\* The files of the directory that hold a well-formed record: an object that
\* parses and has the 14 required fields.
WellFormed ==
    {n \in FileNames :
        /\ r_exists
        /\ r_dir[n].kind = "record"
        /\ r_dir[n].missing = ""}

\* C14: load_results does not raise because of a bad record: a file that fails
\* to parse or lacks a required field is skipped, and the returned list holds
\* exactly the well-formed records, each once, in ascending file-name order.
C14_BadRecordsSkipped ==
    r_pc \notin {"idle", "start"} =>
        /\ Len(r_results) = Cardinality(WellFormed)
        /\ Len(r_files) = Len(r_results)
        /\ {r_files[i] : i \in DOMAIN r_files} = WellFormed
        /\ \A i, j \in DOMAIN r_files : i < j => r_files[i] < r_files[j]
        /\ \A i \in DOMAIN r_files : r_results[i] = r_dir[r_files[i]].data

\* C14 witness: load_results has returned the one well-formed record of a
\* directory whose first file does not parse, whose second file is well formed
\* and whose third file lacks the field seed.
C14_Witness ==
    /\ r_pc = "loaded"
    /\ r_dir[1].kind = "bad"
    /\ r_dir[2].kind = "record" /\ r_dir[2].missing = ""
    /\ r_dir[3].kind = "record" /\ r_dir[3].missing = "seed"
    /\ r_files = <<2>>
    /\ r_results = <<r_dir[2].data>>

\* C15: generate_report returns a document with the header, the progress line
\* and the footer, and does not raise, for every state of the results
\* directory: missing, empty, with keys that only one framework has a result
\* for, and with any records that load_results accepted.
C15_ReportAlwaysRenders ==
    /\ r_pc /= "raised"
    /\ r_pc = "returned" =>
          /\ Len(r_doc) = 1
          /\ r_doc[1].header /= ""
          /\ r_doc[1].progress.completed <= r_doc[1].progress.total_expected
          /\ r_doc[1].footer /= ""

\* The returned document has a row for key k in its quality table.
InQuality(k) ==
    \E s \in DOMAIN r_doc[1].summary : \E i \in DOMAIN r_doc[1].summary[s].quality :
        r_doc[1].summary[s].quality[i].key = k

\* The returned document has a row for key k in its throughput table.
InThroughput(k) ==
    \E s \in DOMAIN r_doc[1].summary : \E i \in DOMAIN r_doc[1].summary[s].throughput :
        r_doc[1].summary[s].throughput[i].key = k

\* The returned document has a row for key k in its pruning-effectiveness table.
InPruning(k) ==
    \E s \in DOMAIN r_doc[1].pruning : \E i \in DOMAIN r_doc[1].pruning[s] :
        r_doc[1].pruning[s][i].key = k

\* The rows for key k in the convergence tables of the returned document, as
\* pairs of the framework label and the formatted convergence.
ConvergenceRowsOf(k) ==
    LET doc == r_doc[1]
        places == {p \in (DOMAIN doc.per_objective) \X (1..(2 * Cardinality(DOMAIN r_grouped))) :
                      /\ p[2] \in DOMAIN doc.per_objective[p[1]].rows
                      /\ doc.per_objective[p[1]].rows[p[2]].key = k}
    IN  {<<doc.per_objective[p[1]].rows[p[2]].config_name,
           doc.per_objective[p[1]].rows[p[2]].conv>> : p \in places}

\* C16: a key with results from both frameworks has a row in the throughput
\* table if and only if its pruner is none, and a row in the
\* pruning-effectiveness table if and only if its pruner is not none; no key
\* has a row in both tables.
C16_ThroughputXorPruning ==
    r_pc = "returned" =>
        /\ \A k \in DOMAIN r_grouped :
              has_cs_and_py(r_grouped[k]) =>
                  /\ InThroughput(k) <=> k[5] = "none"
                  /\ InPruning(k) <=> k[5] /= "none"
        /\ \A k \in DOMAIN r_grouped : ~(InThroughput(k) /\ InPruning(k))

\* C16 witness: the returned document of a directory with the median-pruner
\* configuration from both frameworks, pruning_rate 0.4: its key has a row in
\* the pruning table, showing the rate times 100, and none in the throughput
\* table.
C16_Witness ==
    /\ r_pc = "returned"
    /\ \E k \in DOMAIN r_grouped :
          /\ k[5] = "median"
          /\ has_cs_and_py(r_grouped[k])
          /\ r_results[r_grouped[k]["optuna"]].pruning_rate = Num(4000)
          /\ InPruning(k)
          /\ ~InThroughput(k)
          /\ r_doc[1].pruning[1][1].py_rate.arg = Num(400000)
    /\ \E k \in DOMAIN r_grouped : k[5] = "none"

\* C17: the progress line shows completed/total where completed is the number
\* of keys that have results from both frameworks, optisharp and optuna, and
\* total is the number of distinct keys among the loaded results; completed <=
\* total, and with no result the line shows 0/0.
C17_ProgressCounts ==
    r_pc = "returned" =>
        /\ r_doc[1].progress.completed =
              Cardinality({k \in {SixFields(r_results[i]) : i \in DOMAIN r_results} :
                              \E i, j \in DOMAIN r_results :
                                  /\ SixFields(r_results[i]) = k
                                  /\ SixFields(r_results[j]) = k
                                  /\ r_results[i].framework = "optisharp"
                                  /\ r_results[j].framework = "optuna"})
        /\ r_doc[1].progress.total_expected =
              Cardinality({SixFields(r_results[i]) : i \in DOMAIN r_results})
        /\ r_doc[1].progress.completed <= r_doc[1].progress.total_expected
        /\ r_results = <<>> =>
              r_doc[1].progress = [completed |-> 0, total_expected |-> 0]

C19_NonFiniteIsNA ==
    (f_pc \in {"returned", "raised"} /\ f_value.t \in {"inf", "-inf", "nan"}) =>
        /\ f_pc = "returned"
        /\ f_out[1] = NA
        /\ f_out[1].text \notin {"inf", "-inf", "nan"}

\* Seeds get_intermediate_value is asked about: the default 42 and two others.
SeedSamples == {0, 42, 43}

\* C20: get_intermediate_value(v, 9, t, s) returns v for every v, t and s, so
\* in a run with a pruner the last intermediate value reported for a trial that
\* reaches step 9 is the true objective value, which is also the value the
\* trial returns when it is not pruned.
C20_FinalStepExact ==
    /\ o_true_value /= <<>> =>
          \A t \in TrialNumbers \cup {o_trial_number} : \A sd \in SeedSamples :
              get_intermediate_value(o_true_value[1], 9, t, sd) = {o_true_value[1]}
    /\ (o_last /= <<>> /\ o_last[1].step = 9) => o_last[1].value = o_true_value[1]
    /\ (o_pc = "returned" /\ o_pruner /= "none") =>
          /\ o_last /= <<>>
          /\ o_last[1].step = 9
          /\ o_last[1].value = o_returned[1]

\* C20 witness: with the median pruner, the last trial of a run has made its
\* ten reports, was not pruned, and has returned a positive true value, which
\* is the value it reported at step 9.
C20_Witness ==
    /\ o_pc = "returned"
    /\ o_pruner = "median"
    /\ o_trial_number = MaxTrials - 1
    /\ o_reports = Steps /\ o_queries = Steps
    /\ o_returned[1] >= ValueUnit
    /\ o_last = <<[step |-> 9, value |-> o_returned[1]]>>
\* C28: for results with any framework names, the number of keys the progress
\* line counts as completed equals the number of rows of the quality table: a
\* key is counted exactly when the quality table has its OptiSharp-versus-Optuna
\* row.
C28_CompletedAreQualityRows ==
    r_pc = "returned" =>
        r_doc[1].progress.completed =
            Cardinality({k \in DOMAIN r_grouped : InQuality(k)})

\* C22: with a pruner, a trial reports its intermediate values at the steps
\* 0, 1, 2, ... in ascending order, at most Steps of them; should_prune is
\* asked exactly once right after each report and before the next report; once
\* it answers yes (the trial is pruned) the trial reports and asks no more.
\* With pruner none nothing is reported, should_prune is never asked and the
\* trial is never pruned.
C22_ReportThenQuery ==
    /\ [](/\ o_reports <= Steps
          /\ o_last = <<>> <=> o_reports = 0
          /\ o_last /= <<>> => o_last[1].step = o_reports - 1
          /\ o_queries = IF o_pc = "query" THEN o_reports - 1 ELSE o_reports
          /\ o_pruner = "none" => (o_reports = 0 /\ o_queries = 0 /\ o_pc /= "pruned"))
    /\ [][/\ o_reports' \in {o_reports, o_reports + 1}
          /\ o_queries' \in {o_queries, o_queries + 1}
          /\ o_reports' = o_reports + 1 =>
                /\ o_queries = o_reports
                /\ o_queries' = o_queries
                /\ o_last'[1].step = o_reports
                /\ o_pc' = "query"
          /\ o_queries' = o_queries + 1 => (o_pc = "query" /\ o_reports' = o_reports)
          /\ o_pc = "pruned" => (o_reports' = o_reports /\ o_queries' = o_queries)]_vars

\* C22 witness: with the median pruner a trial reported the steps 0, 1 and 2,
\* asked should_prune after each of them and was pruned by the third answer.
C22_Witness ==
    /\ o_pruner = "median"
    /\ o_pc = "pruned"
    /\ o_reports = 3 /\ o_queries = 3
    /\ o_last[1].step = 2

\* C23: in every run of run_benchmark on a configuration, each trial that is
\* not pruned hands its true value to the study exactly once and a pruned trial
\* hands over none: at every moment the finalized trials plus the pruned trials
\* are the trials run.
C23_FinalizedOrPruned ==
    (IsConfiguration /\ cfg.n_trials >= 1) =>
        finalized + pruned_count = trial_number

\* C24: the best_value of the result run_benchmark returns on a configuration
\* is the minimum of the true values returned by the trials that were not
\* pruned, and every convergence entry is one of those values: the value of a
\* pruned trial never becomes best_value or a convergence entry.
C24_BestOfUnpruned ==
    IsConfiguration =>
        /\ \A i \in DOMAIN convergence : \E x \in returned_values : convergence[i] = x.v
        /\ pc = "returned" =>
              /\ returned_values /= {}
              /\ result[1].best_value = Min({x.v : x \in returned_values})
              /\ \A i \in 1..5 :
                    \E x \in returned_values : result[1].convergence[i] = x.v

\* C24 witness: a returned result of a run with the median pruner in which
\* trials were pruned and the trials that were not pruned all returned 1 or
\* more: best_value is 1.
C24_Witness ==
    /\ pc = "returned"
    /\ cfg.pruner = "median"
    /\ result[1].pruned_trials >= 2
    /\ result[1].best_value = 1
    /\ \A x \in returned_values : x.v >= 1

\* C25: with pruner none and no error from the study, the k-th convergence
\* entry is recorded when floor(n_trials * k / 5) trials have completed and is
\* the least true value of those trials, the trial at the boundary included;
\* the fifth entry of the returned result is its best_value.
C25_SnapshotIncludesBoundary ==
    /\ [][(/\ IsConfiguration /\ cfg.pruner = "none" /\ swallowed' = ""
           /\ Len(convergence') = Len(convergence) + 1
           /\ pc = "optimize")
          => (/\ trial_number' = (cfg.n_trials * Len(convergence')) \div 5
              /\ convergence'[Len(convergence')] =
                    Min({x.v : x \in returned_values'}))]_vars
    /\ []((IsConfiguration /\ cfg.pruner = "none" /\ swallowed = "" /\ pc = "returned")
             => result[1].convergence[5] = result[1].best_value)

\* Two of the five checkpoint boundaries of n_trials coincide.
Collides(n_trials) ==
    \E i, j \in 0..4 : i < j /\ checkpoint_trial(n_trials, i) = checkpoint_trial(n_trials, j)

\* C26: when two checkpoint boundaries of a configuration coincide, the trial
\* loop records at most one snapshot per distinct boundary and no trial appends
\* more than one; the run returns a result whose convergence has 5 entries, the
\* entries the loop did not record being the final best value put there by the
\* padding.
C26_CollisionPadded ==
    (IsConfiguration /\ cfg.n_trials >= 1 /\ Collides(cfg.n_trials)) =>
        /\ checkpoint_idx <= Cardinality({checkpoint_trial(cfg.n_trials, i) : i \in 0..4})
        /\ checkpoint_idx <= trial_number
        /\ Len(convergence) >= checkpoint_idx
        /\ Terminal =>
              /\ pc = "returned"
              /\ Len(result[1].convergence) = 5
              /\ \A i \in (checkpoint_idx + 1)..5 :
                    result[1].convergence[i] = result[1].best_value

\* C27: the generator of get_intermediate_value is seeded with seed XOR
\* trial_number XOR step; with the same seed, two calls whose (trial_number,
\* step) pairs differ (steps 0..8) get different generator seeds, and with the
\* same (trial_number, step), two calls whose seeds differ get different
\* generator seeds.
C27_SeedsDiverge ==
    n_pc = "seeded" =>
        /\ n_rng[1] = xor(n_a.seed, xor(n_a.trial, n_a.step))
        /\ n_rng[2] = xor(n_b.seed, xor(n_b.trial, n_b.step))
        /\ (n_a.seed = n_b.seed /\ <<n_a.trial, n_a.step>> /= <<n_b.trial, n_b.step>>)
              => n_rng[1] /= n_rng[2]
        /\ (n_a.seed /= n_b.seed /\ <<n_a.trial, n_a.step>> = <<n_b.trial, n_b.step>>)
              => n_rng[1] /= n_rng[2]

\* The paths save has been called with.
SavedPaths == {p \in SavePaths : s_saved[p].n > 0}

\* The path of the file the i-th result of load_results was loaded from.
LoadedFrom(i) == [name |-> r_files[i], suffix |-> ".json"]

\* The 14 fields of a loaded result equal those of a saved one.
FieldsEqual(loaded, saved) ==
    \A i \in DOMAIN RequiredFields : loaded[RequiredFields[i]] = saved[RequiredFields[i]]

\* C21 as claimed: after any sequence of save calls into one directory,
\* load_results on it returns exactly one result per distinct path, whose 14
\* fields equal those of the most recent result saved at that path.
C21_SaveLoadRoundTrip_Original ==
    r_pc = "loaded" =>
        /\ Len(r_results) = Cardinality(SavedPaths)
        /\ \A p \in SavedPaths :
              /\ Cardinality({i \in DOMAIN r_results : LoadedFrom(i) = p}) = 1
              /\ \A i \in DOMAIN r_results :
                    LoadedFrom(i) = p => FieldsEqual(r_results[i], s_saved[p].last[1])

\* C21 as amended: after any sequence of save calls into one directory,
\* load_results on it returns exactly one result per distinct path whose name
\* ends in .json, and none for the other paths; the 14 fields of the result
\* equal those of the most recent result saved at that path, so save replaces
\* and never appends, and every record save wrote to such a path is accepted.
C21_SaveLoadRoundTrip ==
    r_pc = "loaded" =>
        LET json_paths == {p \in SavedPaths : p.suffix = ".json"} IN
        /\ Len(r_results) = Cardinality(json_paths)
        /\ \A i \in DOMAIN r_results : LoadedFrom(i) \in json_paths
        /\ \A p \in json_paths :
              /\ Cardinality({i \in DOMAIN r_results : LoadedFrom(i) = p}) = 1
              /\ \A i \in DOMAIN r_results :
                    LoadedFrom(i) = p => FieldsEqual(r_results[i], s_saved[p].last[1])

\* C21 witness: load_results has returned two results: the first path was
\* saved twice and its result has the best value of the second save, the second
\* path was saved once, and the path with the suffix .txt was saved and is not
\* loaded.
C21_Witness ==
    /\ r_pc = "loaded"
    /\ s_saved[[name |-> 1, suffix |-> ".json"]].n = 2
    /\ s_saved[[name |-> 2, suffix |-> ".json"]].n = 1
    /\ s_saved[[name |-> 3, suffix |-> ".json"]].n = 0
    /\ s_saved[[name |-> 1, suffix |-> ".txt"]].n = 1
    /\ Len(r_results) = 2
    /\ r_files = <<1, 2>>
    /\ r_results[1].best_value = Num(800)
    /\ s_saved[[name |-> 1, suffix |-> ".json"]].last[1].best_value = Num(800)

\* C29: optuna_matrix.main returns exit code 0 exactly when run_benchmark
\* returned a result and save wrote it, the file at the output path then
\* holding that one record; when run_benchmark or save raises, main returns
\* exit code 1 and the exception does not leave main; the file at the output
\* path is created or changed only after run_benchmark has returned.
C29_ExitCodeAndFile ==
    /\ [](/\ x_pc \in {"idle", "run", "exited"}
          /\ x_pc = "run" => x_exit = -1
          /\ x_pc = "exited" =>
                /\ x_exit \in {0, 1}
                /\ pc \in {"returned", "raised"}
                /\ pc = "raised" => x_exit = 1
                /\ x_exit = 0 <=>
                      (pc = "returned" /\ x_file = <<[kind |-> "result", data |-> result]>>)
                /\ x_exit = 1 => (x_file = <<>> \/ x_file[1].kind /= "result"))
    /\ [][x_file' /= x_file => (pc = "returned" /\ x_pc = "run")]_vars

\* C29 witness: main has returned exit code 1 after run_benchmark raised on a
\* configuration with 5 trials, and the file at the output path still holds the
\* record of the previous run.
C29_Witness ==
    /\ x_pc = "exited"
    /\ x_exit = 1
    /\ pc = "raised"
    /\ cfg.n_trials = 5 /\ cfg.n_params = 1
    /\ x_file = <<[kind |-> "previous", data |-> <<>>]>>

====
